---- MODULE Spec2Model ----
(***************************************************************************)
(* Hall-sensor logging firmware (cyclometry/arduino).  Three sketches      *)
(* share one command step and differ in what the sampling step does:       *)
(*   simple    nrf52_hall/src/main.cpp                                     *)
(*   extended  nrf52_with_hall/nrf52_with_hall.ino                         *)
(*   batched   the sketch with outputBuffer / resetOutputBuffer            *)
(* One iteration of loop() is modelled as consecutive steps (command,      *)
(* sample, flush, delay) because millis() is read at several places of     *)
(* one iteration.  Text is a sequence of one-character strings.            *)
(***************************************************************************)
EXTENDS Integers, Sequences, FiniteSets, TLC

VARIABLES
    variant,                \* which sketch is flashed
    pc,                     \* position inside loop()
    clock,                  \* millis()
    slack,                  \* history: extra milliseconds spent so far (bounded)
    inputString,            \* String inputString
    currentCommand,         \* enum commandAction currentCommand (as int)
    currentRecordingState,  \* enum recordingState
    elapsedStartMillis,
    activity,               \* String activity (extended)
    hallValue,
    outputBuffer,           \* char outputBuffer[1024]: cells 0..Len-1, the rest is NUL
    endOfBuffer,            \* offset of the pointer endOfBuffer from outputBuffer
    remainingSpace,
    lastSendTimeMillis,
    tx,                     \* payloads handed to the transport in this iteration
    halted,                 \* exit(1) was called
    strayIndex,             \* offsets outside outputBuffer that were stored to
    drained,                \* history: bytes read by the drain loop that just ran
    pending,                \* history: records appended since the last flush,
                            \* each <<code, elapsed, value, origin it was sampled under>>
    sampled,                \* history: this iteration read the sensor
    flushed,                \* history: this iteration entered the flush branch
    ticks,                  \* history: iterations of loop() completed (bounded)
    arrivals,               \* history: iterations that drained some bytes (bounded)
    sensor,                 \* the level analogRead(analogPin) returns now
    moreToCome              \* history: the sender's command continues with bytes
                            \* that the drain loop that just ran has not yet received

vars == <<variant, pc, clock, slack, inputString, currentCommand,
          currentRecordingState, elapsedStartMillis, activity, hallValue,
          outputBuffer, endOfBuffer, remainingSpace, lastSendTimeMillis,
          tx, halted, strayIndex, drained, pending, sampled, flushed,
          ticks, arrivals, sensor, moreToCome>>

----------------------------------------------------------------------------
(* Bounds of the model *)

MaxTicks == 6
MaxSlack == 1
MaxArrivals == 2
MaxAppends == 120

\* millis() when loop() is first entered, i.e. how long setup() took
BootTimes == {0, 1001}

\* what bleuart can hold when the drain loop starts: nothing, one action
\* digit ('0' '1' '2'), a digit with a payload, two commands at once, a
\* letter, control bytes, a control byte and a letter
Inputs == {<<>>, <<48>>, <<49>>, <<50>>, <<48, 97>>, <<49, 97>>, <<49, 97, 98>>,
           <<50, 97>>, <<49, 48>>, <<48, 49>>, <<50, 48>>, <<97>>, <<97, 49>>,
           <<4>>, <<4, 97>>, <<4, 8>>}

\* the Hall sensor's level without the magnet, and the levels with it
SensorLevels == {5}
MagnetLevels == {7, 42}

\* what the unwritten part of a stack buffer can hold
GarbageBytes == {"x", "NUL"}

Variants == {"simple", "batched", "extended"}

----------------------------------------------------------------------------
(* Program constants *)

OutputBufferSize == 1024
ExtBufferSize == 32
metricsSendFrequencyMs == 1000
recordingFrequencyMs == 200
SimpleDelayMs == 500
ExtendedDelayMs == 500
metricTypeCode == 1
category == 1
AsciiZero == 48
STOP_RECORDING == 0
NAME_ACTIVITY == 1
STOPPED == "STOPPED"
RECORDING == "RECORDING"
NUL == "NUL"

START_RECORDING(v) == IF v = "extended" THEN 2 ELSE 1

\* a loop that pauses only 100 ms between iterations
TickDelayShort(v) == 100

TickDelay(v) ==
    CASE v = "batched" -> recordingFrequencyMs
      [] v = "simple" -> SimpleDelayMs
      [] OTHER -> ExtendedDelayMs

----------------------------------------------------------------------------
(* Text and integer helpers *)

Min(a, b) == IF a < b THEN a ELSE b

DigitChars == <<"0", "1", "2", "3", "4", "5", "6", "7", "8", "9">>

IsDigit(c) == \E i \in 1..10 : DigitChars[i] = c

DigitVal(c) == (CHOOSE i \in 1..10 : DigitChars[i] = c) - 1

(* The model checker's integers are 32-bit signed.  An unsigned 32-bit     *)
(* value u >= 2^31 is carried as u - 2^32, so that + and - agree with the  *)
(* machine's arithmetic modulo 2^32 and only comparisons need the unsigned *)
(* order.                                                                  *)

\* unsigned 32-bit subtraction, as in millis() - elapsedStartMillis
Sub32(a, b) == a - b

\* unsigned a > b
UGt(a, b) == IF (a < 0) = (b < 0) THEN a > b ELSE a < 0

\* an unsigned long printed with %i: its two's complement reading
AsInt32(u) == u

RECURSIVE Dec(_)
\* decimal text of a natural number (%lu, and String's concat(unsigned char))
Dec(n) == IF n < 10 THEN <<DigitChars[n + 1]>>
          ELSE Dec(n \div 10) \o <<DigitChars[(n % 10) + 1]>>

\* %i
DecSigned(n) == IF n < 0 THEN <<"-">> \o Dec(0 - n) ELSE Dec(n)

\* inputString += ch, with ch a uint8_t: String appends the decimal text of
\* the byte's value
ConcatByte(s, ch) == s \o Dec(ch)

RECURSIVE ConcatBytes(_, _)
\* the drain loop
ConcatBytes(s, bytes) ==
    IF bytes = <<>> THEN s
    ELSE ConcatBytes(ConcatByte(s, Head(bytes)), Tail(bytes))

\* String::substring(from, to)
Substring(s, from, to) == SubSeq(s, from + 1, Min(to, Len(s)))

\* String::substring(from)
SubstringFrom(s, from) == SubSeq(s, from + 1, Len(s))

RECURSIVE ParseDigits(_, _)
ParseDigits(s, acc) ==
    IF s = <<>> \/ ~IsDigit(Head(s)) THEN acc
    ELSE ParseDigits(Tail(s), acc * 10 + DigitVal(Head(s)))

\* String::toInt (atol): the leading run of digits, 0 when there is none
ToInt(s) == ParseDigits(s, 0)

\* "%i:%lu:%lu"
FormatRecord(code, elapsed, value) ==
    DecSigned(code) \o <<":">> \o Dec(elapsed) \o <<":">> \o Dec(value)

\* "%i:%lu:%lu;"
FormatBatchRecord(code, elapsed, value) ==
    FormatRecord(code, elapsed, value) \o <<";">>

\* "%i:%i:%i" given an unsigned long and an int
FormatRecordExt(code, elapsed, value) ==
    DecSigned(code) \o <<":">> \o DecSigned(AsInt32(elapsed)) \o <<":">> \o DecSigned(value)

----------------------------------------------------------------------------
(* The char array outputBuffer: a sequence holding cells 0..Len-1, every   *)
(* cell from Len on being NUL, kept without trailing NULs.                 *)

RECURSIVE Trim(_)
Trim(mem) == IF mem # <<>> /\ mem[Len(mem)] = NUL
             THEN Trim(SubSeq(mem, 1, Len(mem) - 1)) ELSE mem

\* store bytes at offset off; stores outside 0..OutputBufferSize-1 do not
\* land in the array
Store(mem, off, bytes) ==
    LET lo == IF off < 0 THEN 0 ELSE off
        end == Min(OutputBufferSize, off + Len(bytes))
        base == IF lo > Len(mem)
                THEN mem \o [i \in 1..(lo - Len(mem)) |-> NUL] ELSE mem
    IN IF end <= lo THEN mem
       ELSE Trim(SubSeq(base, 1, lo) \o SubSeq(bytes, lo - off + 1, end - off)
                 \o SubSeq(base, end + 1, Len(base)))

\* the offsets of a store that fall outside the array
StoreOutside(off, n) ==
    {i \in off..(off + n - 1) : i < 0 \/ i >= OutputBufferSize}

\* strlen(outputBuffer): the offset of the first NUL
Strlen(mem) ==
    LET nuls == {i \in 1..Len(mem) : mem[i] = NUL}
    IN IF nuls = {} THEN Len(mem)
       ELSE (CHOOSE i \in nuls : \A j \in nuls : i <= j) - 1

\* the C string at outputBuffer, what write(str) sends
CString(mem) == SubSeq(mem, 1, Strlen(mem))

\* what snprintf(dst, size, ...) stores for a formatted text: all of it and
\* a NUL when size > length, else the first size-1 characters and a NUL
SnprintfStored(text, size) ==
    IF size = 0 THEN <<>>
    ELSE IF UGt(size, Len(text)) THEN text \o <<NUL>>
    ELSE SubSeq(text, 1, size - 1) \o <<NUL>>

\* what snprintf returns: the length of the whole formatted text
\* an snprintf that reports failure
SnprintfFails(text, size) == -1

SnprintfReturn(text, size) == Len(text)

----------------------------------------------------------------------------
(* The command step *)

\* a decode that reads one character of the accumulated text, not two
DecodeFirstChar(s) == ToInt(Substring(s, 0, 1)) - AsciiZero

\* (commandAction) (inputString.substring(0, 2).toInt() - 48)
DecodeCommand(s) == ToInt(Substring(s, 0, 2)) - AsciiZero

\* inputString = "";
ClearedInput == <<>>

\* the part of the state a command can change
Session == [state |-> currentRecordingState, origin |-> elapsedStartMillis,
            name |-> activity]

\* a Stop that also forgets the elapsed origin
StopEffectResetsOrigin(st) == [st EXCEPT !.state = STOPPED, !.origin = 0]

\* currentRecordingState = STOPPED;
StopEffect(st) == [st EXCEPT !.state = STOPPED]

\* a Start that is ignored while already recording
StartEffectIfStopped(st, now) ==
    IF st.state = RECORDING THEN st
    ELSE [st EXCEPT !.state = RECORDING, !.origin = now]

\* a Start that takes the power-on time as the origin
StartEffectFromBoot(st, now) == [st EXCEPT !.state = RECORDING, !.origin = 0]

\* currentRecordingState = RECORDING; elapsedStartMillis = millis();
StartEffect(st, now) == [st EXCEPT !.state = RECORDING, !.origin = now]

\* activity = inputString.substring(2);
NameEffect(st, s) == [st EXCEPT !.name = SubstringFrom(s, 2)]

\* a command step that goes on to decode and apply what follows the first
\* code in the accumulated text
ApplyEveryCommand(v, cmd, st, s, now) ==
    LET one(c, t, x) ==
            IF c = STOP_RECORDING THEN StopEffect(x)
            ELSE IF c = START_RECORDING(v) THEN StartEffect(x, now)
            ELSE IF v = "extended" /\ c = NAME_ACTIVITY THEN NameEffect(x, t)
            ELSE x
        rest == SubstringFrom(s, 2)
    IN IF Len(rest) >= 2
       THEN one(DecodeCommand(rest), rest, one(cmd, s, st))
       ELSE one(cmd, s, st)

\* the if / else if chain on currentCommand
ApplyCommand(v, cmd, st, s, now) ==
    IF cmd = STOP_RECORDING THEN StopEffect(st)
    ELSE IF cmd = START_RECORDING(v) THEN StartEffect(st, now)
    ELSE IF v = "extended" /\ cmd = NAME_ACTIVITY THEN NameEffect(st, s)
    ELSE st

----------------------------------------------------------------------------
(* The buffer of the batched sketch *)

\* snprintf(endOfBuffer, remainingSpace, ...) and the cursor update that
\* follows it
\* an append that stores the record but leaves the cursor where it was
AppendBufferInPlace(text) ==
    LET stored == SnprintfStored(text, remainingSpace)
    IN /\ outputBuffer' = Store(outputBuffer, endOfBuffer, stored)
       /\ strayIndex' = strayIndex \cup StoreOutside(endOfBuffer, Len(stored))
       /\ UNCHANGED <<endOfBuffer, remainingSpace, halted>>

AppendBuffer(text) ==
    LET writtenBytes == SnprintfReturn(text, remainingSpace)
        stored == SnprintfStored(text, remainingSpace)
    IN /\ outputBuffer' = Store(outputBuffer, endOfBuffer, stored)
       /\ strayIndex' = strayIndex \cup StoreOutside(endOfBuffer, Len(stored))
       /\ IF writtenBytes > 0
          THEN /\ endOfBuffer' = endOfBuffer + writtenBytes
               /\ remainingSpace' = remainingSpace - writtenBytes
               /\ UNCHANGED halted
          ELSE /\ halted' = TRUE
               /\ UNCHANGED <<endOfBuffer, remainingSpace>>

\* a reset that rewinds the cursor but forgets the capacity counter
ResetCursorOnly ==
    /\ endOfBuffer' = 0
    /\ outputBuffer' = <<>>
    /\ UNCHANGED remainingSpace

\* resetOutputBuffer()
ResetOutputBuffer ==
    /\ endOfBuffer' = 0
    /\ remainingSpace' = OutputBufferSize
    /\ outputBuffer' = <<>>

\* a send check that is skipped while the recording is stopped
ShouldFlushWhileRecording(now, last) ==
    /\ currentRecordingState = RECORDING
    /\ UGt(Sub32(now, last), metricsSendFrequencyMs)

\* a send check that also fires when exactly the period has passed
ShouldFlushAtTie(now, last) == ~UGt(metricsSendFrequencyMs, Sub32(now, last))

\* if (millis() - lastSendTimeMillis > metricsSendFrequencyMs)
ShouldFlush(now, last) == UGt(Sub32(now, last), metricsSendFrequencyMs)

\* a send that overwrites the terminator instead of the last character
StripNothing(mem) == Strlen(mem)

\* the index in outputBuffer[strlen(outputBuffer)-1] = '\0'
StripIndex(mem) == Strlen(mem) - 1

\* a send that keeps the old send time when there was nothing to send
FlushStampUnlessEmpty(now) == IF endOfBuffer = 0 THEN lastSendTimeMillis ELSE now

\* lastSendTimeMillis = millis();
FlushStamp(now) == now

\* the body of the send branch: strip the last delimiter, writeAll, reset
\* the buffer, restart the timer
SendAndReset(later) ==
    LET stripped == Store(outputBuffer, StripIndex(outputBuffer), <<NUL>>)
    IN /\ tx' = Append(tx, CString(stripped))
       /\ strayIndex' = strayIndex \cup StoreOutside(StripIndex(outputBuffer), 1)
       /\ ResetOutputBuffer
       /\ lastSendTimeMillis' = FlushStamp(later)
       /\ flushed' = TRUE
       /\ pending' = <<>>

----------------------------------------------------------------------------
(* loop() *)

Init ==
    /\ variant \in Variants
    /\ pc = "command"
    /\ clock \in BootTimes
    /\ slack = 0
    /\ inputString = <<>>
    /\ currentCommand = 0
    /\ currentRecordingState = STOPPED
    /\ elapsedStartMillis = 0
    /\ activity = <<"u", "n", "n", "a", "m", "e", "d">>
    /\ hallValue = 0
    /\ outputBuffer = <<>>
    /\ endOfBuffer = 0
    /\ remainingSpace = OutputBufferSize
    /\ lastSendTimeMillis = 0
    /\ tx = <<>>
    /\ halted = FALSE
    /\ strayIndex = {}
    /\ drained = <<>>
    /\ pending = <<>>
    /\ sampled = FALSE
    /\ flushed = FALSE
    /\ ticks = 0
    /\ arrivals = 0
    /\ sensor \in SensorLevels
    /\ moreToCome = FALSE

\* the magnet reaches the sensor: the analog level changes
MagnetArrives(v) ==
    /\ pc = "sample"
    /\ ~halted
    /\ sensor \in SensorLevels
    /\ sensor' = v
    /\ UNCHANGED <<variant, pc, clock, slack, inputString, currentCommand,
                   currentRecordingState, elapsedStartMillis, activity, hallValue,
                   outputBuffer, endOfBuffer, remainingSpace, lastSendTimeMillis,
                   tx, halted, strayIndex, drained, pending, sampled, flushed,
                   ticks, arrivals, moreToCome>>

\* drain the bytes bleuart holds, decode and apply one command, clear inputString
CommandStep ==
    /\ pc = "command"
    /\ ~halted
    /\ \E bytes \in Inputs :
        LET now == clock
            s == ConcatBytes(inputString, bytes)
            cmd == DecodeCommand(s)
        IN /\ bytes # <<>> => arrivals < MaxArrivals
           /\ arrivals' = IF bytes # <<>> THEN arrivals + 1 ELSE arrivals
           /\ drained' = bytes
           /\ moreToCome' \in (IF bytes = <<>> THEN {FALSE} ELSE BOOLEAN)
           /\ IF Len(s) > 0
              THEN LET after == ApplyCommand(variant, cmd, Session, s, now)
                   IN /\ currentCommand' = cmd
                      /\ currentRecordingState' = after.state
                      /\ elapsedStartMillis' = after.origin
                      /\ activity' = after.name
                      /\ inputString' = ClearedInput
              ELSE /\ inputString' = s
                   /\ UNCHANGED <<currentCommand, currentRecordingState,
                                  elapsedStartMillis, activity>>
    /\ pc' = "sample"
    /\ UNCHANGED <<variant, clock, slack, hallValue, outputBuffer, endOfBuffer,
                   remainingSpace, lastSendTimeMillis, tx, halted, strayIndex,
                   pending, sampled, flushed, ticks, sensor>>

\* a sampling step that does not look at the recording state
ShouldSampleAlways(st) == TRUE

\* if (currentRecordingState == RECORDING)
ShouldSample(st) == st = RECORDING

\* when recording, read the sensor and append or send one record
SampleStep ==
    /\ pc = "sample"
    /\ ~halted
    /\ IF ShouldSample(currentRecordingState)
       THEN \E d \in 0..(MaxSlack - slack) :
              LET now == clock + d
                  v == sensor
                  elapsed == Sub32(now, elapsedStartMillis)
              IN /\ clock' = now
                 /\ slack' = slack + d
                 /\ hallValue' = v
                 /\ sampled' = TRUE
                 /\ CASE variant = "batched" ->
                           /\ AppendBuffer(FormatBatchRecord(metricTypeCode, elapsed, v))
                           /\ pending' = Append(pending, <<metricTypeCode, elapsed, v,
                                                           elapsedStartMillis>>)
                           /\ UNCHANGED tx
                      [] variant = "simple" ->
                           /\ tx' = Append(tx, FormatRecord(category, elapsed, v))
                           /\ UNCHANGED <<outputBuffer, endOfBuffer, remainingSpace,
                                          halted, strayIndex, pending>>
                      [] OTHER ->
                           /\ \E g \in GarbageBytes :
                                LET text == FormatRecordExt(category, elapsed, v) \o <<NUL>>
                                IN tx' = Append(tx, text \o
                                       [i \in 1..(ExtBufferSize - Len(text)) |-> g])
                           /\ UNCHANGED <<outputBuffer, endOfBuffer, remainingSpace,
                                          halted, strayIndex, pending>>
       ELSE UNCHANGED <<clock, slack, hallValue, sampled, outputBuffer, endOfBuffer,
                        remainingSpace, halted, strayIndex, pending, tx>>
    /\ pc' = IF variant = "batched" THEN "flush" ELSE "delay"
    /\ drained' = <<>>
    /\ moreToCome' = FALSE
    /\ UNCHANGED <<variant, inputString, currentCommand, currentRecordingState,
                   elapsedStartMillis, activity, lastSendTimeMillis,
                   flushed, ticks, arrivals, sensor>>

\* if it is time, strip the trailing delimiter, send, reset buffer and timer
FlushStep ==
    /\ pc = "flush"
    /\ ~halted
    /\ IF ShouldFlush(clock, lastSendTimeMillis)
       THEN \E d \in 0..(MaxSlack - slack) :
              /\ SendAndReset(clock + d)
              /\ clock' = clock + d
              /\ slack' = slack + d
       ELSE UNCHANGED <<clock, slack, tx, strayIndex, outputBuffer, endOfBuffer,
                        remainingSpace, lastSendTimeMillis, flushed, pending>>
    /\ pc' = "delay"
    /\ UNCHANGED <<variant, inputString, currentCommand, currentRecordingState,
                   elapsedStartMillis, activity, hallValue, halted, drained, sampled,
                   ticks, arrivals, sensor, moreToCome>>

\* delay(...) at the end of loop(), and the return to its start
DelayStep ==
    /\ pc = "delay"
    /\ ~halted
    /\ ticks < MaxTicks
    /\ \E d \in 0..(MaxSlack - slack) :
        /\ clock' = clock + TickDelay(variant) + d
        /\ slack' = slack + d
    /\ pc' = "command"
    /\ ticks' = ticks + 1
    /\ tx' = <<>>
    /\ sampled' = FALSE
    /\ flushed' = FALSE
    /\ UNCHANGED <<variant, inputString, currentCommand, currentRecordingState,
                   elapsedStartMillis, activity, hallValue, outputBuffer, endOfBuffer,
                   remainingSpace, lastSendTimeMillis, halted, strayIndex,
                   drained, pending, arrivals, sensor, moreToCome>>

Next ==
    \/ \E v \in MagnetLevels : MagnetArrives(v)
    \/ CommandStep
    \/ SampleStep
    \/ FlushStep
    \/ DelayStep

Spec == Init /\ [][Next]_vars

----------------------------------------------------------------------------
(* The append step and the send branch of the batched sketch taken in any  *)
(* order, without the timing of loop(): every iteration samples (the       *)
(* recording was started at time 0), the send branch may or may not run.   *)

InitAppend ==
    /\ variant = "batched"
    /\ pc = "free"
    /\ clock = 0
    /\ slack = 0
    /\ inputString = <<>>
    /\ currentCommand = START_RECORDING("batched")
    /\ currentRecordingState = RECORDING
    /\ elapsedStartMillis = 0
    /\ activity = <<"u", "n", "n", "a", "m", "e", "d">>
    /\ hallValue = 0
    /\ outputBuffer = <<>>
    /\ endOfBuffer = 0
    /\ remainingSpace = OutputBufferSize
    /\ lastSendTimeMillis = 0
    /\ tx = <<>>
    /\ halted = FALSE
    /\ strayIndex = {}
    /\ drained = <<>>
    /\ pending = <<>>
    /\ sampled = FALSE
    /\ flushed = FALSE
    /\ ticks = 0
    /\ arrivals = 0
    /\ sensor \in SensorLevels
    /\ moreToCome = FALSE

\* lines 188-209 of the batched loop, then its delay
AppendOnly ==
    /\ pc = "free"
    /\ ~halted
    /\ ticks < MaxAppends
    /\ LET elapsed == Sub32(clock, elapsedStartMillis)
       IN /\ AppendBuffer(FormatBatchRecord(metricTypeCode, elapsed, sensor))
          /\ pending' = Append(pending, <<metricTypeCode, elapsed, sensor,
                                          elapsedStartMillis>>)
    /\ hallValue' = sensor
    /\ sampled' = TRUE
    /\ flushed' = FALSE
    /\ tx' = <<>>
    /\ clock' = clock + recordingFrequencyMs
    /\ ticks' = ticks + 1
    /\ UNCHANGED <<variant, pc, slack, inputString, currentCommand,
                   currentRecordingState, elapsedStartMillis, activity,
                   lastSendTimeMillis, drained, arrivals, sensor, moreToCome>>

\* lines 213-218 of the batched loop
FlushOnly ==
    /\ pc = "free"
    /\ ~halted
    /\ sampled
    /\ SendAndReset(clock)
    /\ sampled' = FALSE
    /\ UNCHANGED <<variant, pc, clock, slack, inputString, currentCommand,
                   currentRecordingState, elapsedStartMillis, activity, hallValue,
                   halted, drained, ticks, arrivals, sensor, moreToCome>>

NextAppend == AppendOnly \/ FlushOnly

SpecAppend == InitAppend /\ [][NextAppend]_vars

----------------------------------------------------------------------------
(* Claims *)

\* which kind of step is being taken
CommandStepTaken == pc = "command" /\ pc' = "sample"
SampleStepTaken == pc = "sample" /\ pc' \in {"flush", "delay"}
FlushStepTaken == pc = "flush" /\ pc' = "delay"

\* the command step just taken decoded a Start / a Stop from drained bytes
StartApplied ==
    CommandStepTaken /\ drained' # <<>> /\ currentCommand' = START_RECORDING(variant)
StopApplied ==
    CommandStepTaken /\ drained' # <<>> /\ currentCommand' = STOP_RECORDING

\* the sampling step just taken appended (batched) or sent (simple, extended) one record
RecordEmitted ==
    IF variant = "batched"
    THEN /\ Len(pending') = Len(pending) + 1
         /\ endOfBuffer' > endOfBuffer
         /\ tx' = tx
    ELSE /\ Len(tx') = Len(tx) + 1
         /\ UNCHANGED <<outputBuffer, endOfBuffer>>

\* C1: the recording state is Stopped at power-on; the sampling step reads
\* the sensor and appends or transmits one record exactly when the state
\* left by the command step is Recording, and touches nothing when it is
\* Stopped; it never changes the recording state, which only a Start or a
\* Stop applied by the command step changes.
C1_SampleIffRecording ==
    /\ currentRecordingState = STOPPED
    /\ [][/\ SampleStepTaken =>
              /\ currentRecordingState' = currentRecordingState
              /\ currentRecordingState = RECORDING =>
                    sampled' /\ hallValue' = sensor /\ RecordEmitted
              /\ currentRecordingState = STOPPED =>
                    /\ ~sampled'
                    /\ UNCHANGED <<hallValue, tx, outputBuffer, endOfBuffer,
                                   remainingSpace, pending, clock>>
          /\ currentRecordingState' # currentRecordingState =>
              /\ StartApplied \/ StopApplied
              /\ currentRecordingState' = RECORDING <=> StartApplied]_vars

\* C1 witness: a Stop was applied with records buffered, and the sampling
\* step of an iteration has then taken no sample
C1_Witness ==
    /\ variant = "batched" /\ pc = "flush"
    /\ currentRecordingState = STOPPED /\ ~sampled /\ pending # <<>>

\* C2: a command step that applies Start leaves the state Recording and
\* the elapsed origin equal to the clock, whatever the state before; when
\* the state before was Recording the origin changes.
C2_StartRearms ==
    [][StartApplied =>
          /\ currentRecordingState' = RECORDING
          /\ elapsedStartMillis' = clock'
          /\ currentRecordingState = RECORDING =>
                elapsedStartMillis' # elapsedStartMillis]_vars

\* C2 witness: a Start was just applied while records of the running
\* recording were buffered
C2_Witness ==
    /\ variant = "batched" /\ pc = "sample" /\ drained # <<>>
    /\ currentCommand = START_RECORDING(variant)
    /\ pending # <<>>
    /\ currentRecordingState = RECORDING /\ elapsedStartMillis = clock

\* C3: a command step that applies Stop leaves the state Stopped and
\* changes neither the elapsed origin, the activity name, the frame buffer,
\* its cursor, its remaining capacity nor the last-flush time; applied
\* while Stopped it changes nothing of these at all.
C3_StopOnlyStops ==
    [][StopApplied =>
          /\ currentRecordingState' = STOPPED
          /\ UNCHANGED <<elapsedStartMillis, activity, outputBuffer, endOfBuffer,
                         remainingSpace, lastSendTimeMillis, hallValue, tx,
                         inputString, clock>>]_vars

\* C3 witness: a Stop was just applied to a recording with buffered records
C3_Witness ==
    /\ variant = "batched" /\ pc = "sample" /\ drained # <<>>
    /\ currentCommand = STOP_RECORDING
    /\ pending # <<>> /\ elapsedStartMillis > 0
    /\ currentRecordingState = STOPPED

\* an append step of the append/send specification, and the record it formats
AppendTaken == pc = "free" /\ ticks' = ticks + 1
AppendText ==
    FormatBatchRecord(metricTypeCode, Sub32(clock, elapsedStartMillis), sensor)

\* snprintf's own criterion: the text and its terminator fit in the size given
Fits(text, size) == UGt(size, Len(text))

RECURSIVE JoinRecords(_)
JoinRecords(recs) ==
    IF recs = <<>> THEN <<>>
    ELSE FormatBatchRecord(Head(recs)[1], Head(recs)[2], Head(recs)[3])
         \o JoinRecords(Tail(recs))

\* that text without its last character
WirePayload(recs) == SubSeq(JoinRecords(recs), 1, Len(JoinRecords(recs)) - 1)

\* the send branch was taken by the flush step just made
SendTaken == FlushStepTaken /\ flushed'

\* C5: a send of a non-empty buffer transmits, as one payload, the records
\* appended since the previous send in append order, each followed by ';'
\* except the last, and leaves the buffer reset: cursor 0, remaining
\* capacity 1024, region zeroed.
C5_FlushSendsJoinedRecords ==
    [][SendTaken /\ pending # <<>> =>
          /\ tx' = Append(tx, WirePayload(pending))
          /\ endOfBuffer' = 0
          /\ remainingSpace' = OutputBufferSize
          /\ outputBuffer' = <<>>
          /\ pending' = <<>>]_vars

\* C5 witness: the records 1:0:5; and 1:200:7; were sent as 1:0:5;1:200:7
C5_Witness ==
    /\ variant = "batched" /\ pc = "delay" /\ flushed
    /\ tx = << <<"1", ":", "0", ":", "5", ";",
                 "1", ":", "2", "0", "0", ":", "7">> >>
    /\ endOfBuffer = 0 /\ remainingSpace = OutputBufferSize

\* C6: a send taken while the buffer is empty transmits a payload of no
\* bytes and still sets the last-send time to the clock.
C6_EmptyFlushStillStamps ==
    [][SendTaken /\ endOfBuffer = 0 =>
          /\ tx' = Append(tx, <<>>)
          /\ lastSendTimeMillis' = clock'
          /\ lastSendTimeMillis' # lastSendTimeMillis]_vars

\* C6 witness: stopped, nothing buffered, the send branch ran
C6_Witness ==
    /\ variant = "batched" /\ pc = "delay" /\ flushed
    /\ currentRecordingState = STOPPED /\ pending = <<>>
    /\ tx = << <<>> >> /\ lastSendTimeMillis = clock /\ ticks > 0

\* C7: the flush step sends exactly when the clock at the check minus the
\* last-send time is strictly greater than 1000; at a difference of exactly
\* 1000 it does not; a send sets the last-send time to the clock, so a send
\* comes more than 1000 ms after the send before it.
C7_FlushIffStrictlyLater ==
    [][FlushStepTaken =>
          /\ flushed' <=> clock - lastSendTimeMillis > metricsSendFrequencyMs
          /\ flushed' =>
                /\ lastSendTimeMillis' = clock'
                /\ lastSendTimeMillis' - lastSendTimeMillis > metricsSendFrequencyMs
          /\ ~flushed' => UNCHANGED <<lastSendTimeMillis, tx, outputBuffer>>]_vars

\* C7 witness: the check ran exactly 1000 ms after the last send and did
\* not send
C7_Witness ==
    /\ variant = "batched" /\ pc = "delay" /\ ~flushed /\ pending # <<>>
    /\ lastSendTimeMillis > 0
    /\ clock - lastSendTimeMillis = metricsSendFrequencyMs

\* C8: in every reachable state of the batched sketch the cursor plus the
\* remaining-capacity counter is 1024.
C8_CursorPlusRemaining ==
    variant = "batched" => endOfBuffer + remainingSpace = OutputBufferSize

\* C8 witness: two records are buffered
C8_Witness ==
    /\ variant = "batched" /\ Len(pending) >= 2
    /\ endOfBuffer > 0 /\ remainingSpace < OutputBufferSize

\* the ASCII digits of the action codes the sketch knows
KnownDigits(v) ==
    {AsciiZero + STOP_RECORDING, AsciiZero + START_RECORDING(v)}
        \cup (IF v = "extended" THEN {AsciiZero + NAME_ACTIVITY} ELSE {})

\* the command step just taken drained some bytes
DrainedSome == CommandStepTaken /\ drained' # <<>>

C10_UnknownInputIgnored ==
    [][DrainedSome /\ Head(drained') \notin KnownDigits(variant) =>
          /\ UNCHANGED <<currentRecordingState, elapsedStartMillis, activity,
                         outputBuffer, endOfBuffer, remainingSpace>>
          /\ ~halted'
          /\ inputString' = <<>>]_vars

\* the command step just taken had the effect of at most one command
AtMostOneCommand ==
    \/ UNCHANGED <<currentRecordingState, elapsedStartMillis, activity>>
    \/ /\ currentRecordingState' = STOPPED
       /\ UNCHANGED <<elapsedStartMillis, activity>>
    \/ /\ currentRecordingState' = RECORDING
       /\ elapsedStartMillis' = clock'
       /\ UNCHANGED activity
    \/ /\ variant = "extended"
       /\ UNCHANGED <<currentRecordingState, elapsedStartMillis>>

\* C11: every command step has the effect of at most one command and ends
\* with the accumulated input empty, whether the drained bytes decoded or
\* not; when the bytes of a Start and of a Stop are drained together only
\* the first takes effect and the rest is not kept for a later iteration.
C11_OneCommandPerTick ==
    [][CommandStepTaken =>
          /\ inputString' = <<>>
          /\ AtMostOneCommand
          /\ drained' = <<>> =>
                UNCHANGED <<currentRecordingState, elapsedStartMillis, activity>>
          /\ drained' = <<AsciiZero + START_RECORDING(variant), AsciiZero>> =>
                currentRecordingState' = RECORDING
          /\ drained' = <<AsciiZero, AsciiZero + START_RECORDING(variant)>> =>
                currentRecordingState' = STOPPED]_vars

\* C11 witness: the simple sketch drained '1' '0' in one iteration, applied
\* Start only and kept nothing
C11_Witness ==
    /\ variant = "simple" /\ pc = "sample" /\ drained = <<49, 48>>
    /\ currentRecordingState = RECORDING /\ elapsedStartMillis = clock
    /\ inputString = <<>>

\* C12: a command step that drains only the first part of a command, the
\* rest of which has not yet arrived, decodes and applies nothing and keeps
\* the bytes it drained in the accumulated input until the rest arrives.
C12_PartialCommandWaits ==
    [][DrainedSome /\ moreToCome' =>
          /\ UNCHANGED <<currentRecordingState, elapsedStartMillis, activity>>
          /\ inputString' = ConcatBytes(inputString, drained')]_vars

\* the text of the record the sampling step just taken handed on: the bytes
\* appended to the buffer (batched) or the payload up to its terminator
RecordText ==
    IF variant = "batched"
    THEN SubSeq(outputBuffer', endOfBuffer + 1, Len(outputBuffer'))
    ELSE CString(tx'[Len(tx')])

\* C13: a sampling step taken while Recording produces the record
\* code:elapsed:value whose code is the metric type code, whose value is the
\* sensor level just read and whose elapsed is the clock at the sampling
\* step minus the elapsed origin; the origin changes only in a command step
\* whose input begins with the digit of Start, to the clock of that step,
\* so a Stop or an unrecognized input leaves the origin in use.
C13_ElapsedSinceLastStart ==
    [][/\ SampleStepTaken /\ currentRecordingState = RECORDING =>
              LET e == clock' - elapsedStartMillis
              IN /\ hallValue' = sensor
                 /\ RecordText = FormatRecord(metricTypeCode, e, sensor)
                        \o (IF variant = "batched" THEN <<";">> ELSE <<>>)
                 /\ variant = "batched" =>
                       pending' = Append(pending, <<metricTypeCode, e, sensor,
                                                    elapsedStartMillis>>)
       /\ elapsedStartMillis' # elapsedStartMillis =>
              /\ StartApplied /\ elapsedStartMillis' = clock'
              /\ Head(drained') = AsciiZero + START_RECORDING(variant)]_vars

\* the sampling step being taken belongs to the iteration whose command
\* step applied Start
StartAppliedThisTick ==
    /\ SampleStepTaken /\ drained # <<>>
    /\ currentCommand = START_RECORDING(variant)

\* C14: in the iteration whose command step applied Start, also when the
\* state was already Recording, the sampling step takes a sample, and the
\* elapsed time that sample reports is less than the delay between two
\* iterations.
C14_FirstSampleSameTick ==
    [][StartAppliedThisTick =>
          LET e == clock' - elapsedStartMillis
          IN /\ sampled' /\ RecordEmitted
             /\ 0 <= e /\ e < TickDelay(variant)
             /\ RecordText = FormatRecord(metricTypeCode, e, sensor)
                    \o (IF variant = "batched" THEN <<";">> ELSE <<>>)]_vars

\* C14 witness: a re-arm; the buffer holds a record of the earlier origin
\* and then the record sampled 1 ms after the Start
C14_Witness ==
    /\ variant = "batched" /\ pc = "flush" /\ sampled
    /\ currentCommand = START_RECORDING(variant)
    /\ Len(pending) >= 2
    /\ pending[Len(pending) - 1][2] >= recordingFrequencyMs
    /\ pending[Len(pending)][2] = 1
    /\ elapsedStartMillis = clock - 1

\* the character a received byte stands for
AsciiChar(b) ==
    CASE b = 48 -> "0" [] b = 49 -> "1" [] b = 50 -> "2"
      [] b = 97 -> "a" [] b = 98 -> "b" [] OTHER -> "?"

\* the text sent after the first byte of an input
PayloadText(bytes) == [i \in 1..(Len(bytes) - 1) |-> AsciiChar(bytes[i + 1])]

\* the command step just taken drained a Name command (extended sketch)
NameApplied ==
    /\ DrainedSome /\ variant = "extended"
    /\ Head(drained') = AsciiZero + NAME_ACTIVITY

\* C15: in the extended sketch a command step that applies Name sets the
\* activity name to the text sent after the action code and changes
\* neither the recording state nor the elapsed origin; a step that applies
\* Stop or Start does not change the name, which is "unnamed" at power-on.
C15_NameSetsPayload ==
    /\ activity = <<"u", "n", "n", "a", "m", "e", "d">>
    /\ [][/\ NameApplied =>
              /\ activity' = PayloadText(drained')
              /\ UNCHANGED <<currentRecordingState, elapsedStartMillis>>
          /\ StartApplied \/ StopApplied => UNCHANGED activity]_vars

\* C16: in the simple and the extended sketch a sampling step taken while
\* Recording transmits one message whose payload is exactly the text
\* code:elapsed:value of the sample just taken, and a sampling step taken
\* while Stopped transmits nothing; an iteration transmits at most once.
C16_OneExactMessagePerTick ==
    [][SampleStepTaken /\ variant # "batched" =>
          /\ tx = <<>>
          /\ IF currentRecordingState = RECORDING
             THEN tx' = <<FormatRecord(category, clock' - elapsedStartMillis, sensor)>>
             ELSE tx' = <<>>]_vars

\* C17: no reachable state has halted and loop() is always at one of its
\* steps; whenever it is at its command step (and the bounds of the model
\* allow another input) a command step that drains Start and ends
\* Recording and one that drains Stop and ends Stopped are possible.
C17_NeverHalts ==
    /\ ~halted
    /\ pc \in {"command", "sample", "delay"} \/ (pc = "flush" /\ variant = "batched")
    /\ (pc = "command" /\ arrivals < MaxArrivals) =>
          /\ ENABLED (/\ drained' = <<AsciiZero + START_RECORDING(variant)>>
                      /\ CommandStep
                      /\ currentRecordingState' = RECORDING)
          /\ ENABLED (/\ drained' = <<AsciiZero + STOP_RECORDING>>
                      /\ CommandStep
                      /\ currentRecordingState' = STOPPED)

\* C17 witness: the last iteration the bounds allow, after a recording was
\* started and stopped again, and loop() has not halted
C17_Witness ==
    /\ variant = "batched" /\ pc = "delay" /\ ticks = MaxTicks
    /\ arrivals = MaxArrivals /\ ~halted
    /\ currentRecordingState = STOPPED /\ elapsedStartMillis > 0

\* C18: the records held in the buffer change only by an append at the end
\* or by a send that transmits all of them, in append order, in one
\* payload and empties the buffer, so no record is dropped or sent twice,
\* whether or not a Stop was applied meanwhile; a flush step that finds
\* records held and more than 1000 ms passed since the last send sends
\* them, and every iteration makes that check and advances the clock by at
\* least 200 ms, so records held are sent within a bounded number of
\* iterations.
C18_BufferedRecordsAreSent ==
    [][/\ \/ pending' = pending
          \/ /\ SampleStepTaken
             /\ Len(pending') = Len(pending) + 1
             /\ SubSeq(pending', 1, Len(pending)) = pending
          \/ /\ SendTaken
             /\ tx' = Append(tx, WirePayload(pending))
             /\ pending' = <<>>
       /\ (FlushStepTaken /\ pending # <<>> /\ ~flushed') =>
             clock - lastSendTimeMillis <= metricsSendFrequencyMs
       /\ StopApplied => UNCHANGED <<pending, outputBuffer>>
       /\ (variant = "batched" /\ SampleStepTaken) => pc' = "flush"
       /\ (pc = "delay" /\ pc' = "command") =>
             clock' >= clock + TickDelay(variant)]_vars

\* C18 witness: records appended, then Stop applied, then a send in an
\* iteration that took no sample transmitted them
C18_Witness ==
    /\ variant = "batched" /\ pc = "delay" /\ flushed /\ ~sampled
    /\ currentRecordingState = STOPPED
    /\ Len(tx) = 1 /\ Len(tx[1]) > 0 /\ pending = <<>>

\* C19: every byte the append step and the flush step store lies inside
\* outputBuffer, at an index from 0 to 1023, also when the send branch runs
\* on an empty buffer.
C19_StoresInsideBuffer == strayIndex = {}

\* C20: under the schedule of loop() the batched sketch never holds more
\* than 7 records: the records held were appended in distinct iterations at
\* least 200 ms apart since the last send, each is at most 24 bytes long,
\* the buffer is exactly their complete texts, and the remaining capacity
\* stays positive and larger than any record, so every append fits.
C20_AtMostSevenRecords ==
    variant = "batched" =>
        /\ Len(pending) <= 7
        /\ pending # <<>> =>
              recordingFrequencyMs * (Len(pending) - 1) <= clock - lastSendTimeMillis
        /\ endOfBuffer <= 24 * Len(pending)
        /\ CString(outputBuffer) = JoinRecords(pending)
        /\ Len(outputBuffer) = endOfBuffer
        /\ remainingSpace >= OutputBufferSize - 24 * 7
        /\ remainingSpace > 24

\* C20 witness: seven records are held when the flush check is reached
C20_Witness ==
    /\ variant = "batched" /\ pc = "flush" /\ Len(pending) = 7
    /\ ShouldFlush(clock, lastSendTimeMillis)

\* the records of one frame were all sampled under one elapsed origin
OneOrigin(recs) ==
    \A i, j \in 1..Len(recs) : recs[i][4] = recs[j][4]

\* the elapsed values of the records are non-decreasing in record order
ElapsedNonDecreasing(recs) ==
    \A i \in 1..(Len(recs) - 1) : recs[i][2] <= recs[i + 1][2]

\* C21 (as stated): every frame the batched sketch sends holds records
\* sampled under one elapsed origin, also when a Start was applied since the
\* previous send, so the elapsed values in the frame are non-decreasing in
\* record order.
C21_FrameHasOneOrigin ==
    [][SendTaken /\ pending # <<>> =>
          OneOrigin(pending) /\ ElapsedNonDecreasing(pending)]_vars

\* C21 (amended): the frame a send transmits is the join of all records
\* appended since the previous send, whatever origin each was sampled under;
\* a Start applied in between leaves the earlier records in the buffer.  In
\* record order the origins are non-decreasing, and the elapsed values are
\* non-decreasing between neighbouring records of the same origin.
C21_FrameKeepsRecordsAcrossStart ==
    [][/\ SendTaken /\ pending # <<>> =>
              /\ tx' = Append(tx, WirePayload(pending))
              /\ \A i \in 1..(Len(pending) - 1) :
                    /\ pending[i][4] <= pending[i + 1][4]
                    /\ pending[i][4] = pending[i + 1][4] =>
                           pending[i][2] <= pending[i + 1][2]
       /\ StartApplied => UNCHANGED <<pending, outputBuffer, endOfBuffer, tx>>]_vars

\* C21 witness: Start applied at 800 and again at 1001; the send at 1001
\* transmitted the record sampled under the first origin (elapsed 1) and
\* the record sampled under the second (elapsed 0) as one frame
C21_Witness ==
    /\ variant = "batched" /\ pc = "delay" /\ flushed
    /\ elapsedStartMillis = 1001 /\ lastSendTimeMillis = 1001
    /\ tx = << <<"1", ":", "1", ":", "5", ";", "1", ":", "0", ":", "5">> >>

====
